---- MODULE Spec2Model ----
(***************************************************************************)
(* A model of optimum/exporters/openvino/stateful.py: the rewriting of a   *)
(* decoder graph whose key-value cache is passed through inputs and        *)
(* outputs into a graph that keeps the cache as persistent state.          *)
(*                                                                         *)
(* The graph (ov.Model) is a record of nodes, the ordered parameter list,  *)
(* the ordered result list and the sinks.  A node's output port is         *)
(* identified with the node (every node of the modelled graphs has one     *)
(* output); a consumer edge is a pair <<node, argument position>>.         *)
(***************************************************************************)
EXTENDS Integers, Sequences, FiniteSets, TLC

\* ------------------------------------------------------------- bounds
\* Most key-value pairs of an initial graph.
MaxKV == 2
\* Most API calls made on one graph.
MaxCalls == 2
\* Pinned batch sizes 1..MaxBatch; runtime batch sizes 1..MaxBatch.
MaxBatch == 2
\* Attention-head counts 1..MaxHeads.
MaxHeads == 2
\* Longest name list drawn for the mapping built by make_stateful.
MaxLen == 2

\* ------------------------------------------------------------- values
\* A dynamic dimension of a partial shape.
Dynamic == -1

\* Python's None / a present value, for num_beams_and_batch.
None == << >>
Some(v) == << v >>

KVInputNames == << "past.0", "past.1", "past.2", "past.3" >>
KVOutputNames == << "present.0", "present.1", "present.2", "present.3" >>

Range(s) == { s[i] : i \in DOMAIN s }

IsDistinct(s) == \A i, j \in DOMAIN s : s[i] = s[j] => i = j

\* ------------------------------------------------------------- nodes
Node(op, names, args, shape, type) ==
    [ op |-> op, names |-> names, args |-> args, shape |-> shape, type |-> type,
      axis |-> 0, value |-> 0, target |-> << >>, variable |-> << >> ]

Parameter(names, shape, type) == Node("Parameter", names, << >>, shape, type)

Gather(data, indices, axis) ==
    [ Node("Gather", {}, << data, indices >>, << >>, "") EXCEPT !.axis = axis ]

\* ------------------------------------------------------------- graph queries
AddNode(g, n) ==
    [ g EXCEPT !.nodes = [ i \in DOMAIN g.nodes \cup { g.next } |->
                             IF i = g.next THEN n ELSE g.nodes[i] ],
               !.next = g.next + 1 ]

RemoveNode(g, id) ==
    [ g EXCEPT !.nodes = [ i \in DOMAIN g.nodes \ { id } |-> g.nodes[i] ] ]

NamesOf(g, ports) == UNION { g.nodes[ports[i]].names : i \in DOMAIN ports }

model_has_input(g, name) == name \in NamesOf(g, g.parameters)

model_has_cache_reorder(g) == model_has_input(g, "beam_idx")

model_has_state(g) == Len(g.sinks) > 0

\* A fault of line 24: only the inputs' names are searched.
model_has_name_InputsOnly(g, name) == name \in NamesOf(g, g.parameters)

model_has_name(g, name) == name \in NamesOf(g, g.parameters \o g.results)

\* ov_model.input(name): the parameter carrying the name (the caller checks
\* model_has_input first: the engine raises when there is none).
InputPort(g, name) ==
    CHOOSE p \in Range(g.parameters) : name \in g.nodes[p].names

OutputPort(g, name) ==
    CHOOSE r \in Range(g.results) : name \in g.nodes[r].names

\* port.get_target_inputs(): the consumer edges reading the port.
get_target_inputs(g, port) ==
    { e \in (DOMAIN g.nodes) \X (1..3) :
        /\ e[2] \in DOMAIN g.nodes[e[1]].args
        /\ g.nodes[e[1]].args[e[2]] = port }

\* consumer.replace_source_output(source), for every consumer edge of the set.
replace_source_output(g, consumers, source) ==
    [ g EXCEPT !.nodes = [ i \in DOMAIN g.nodes |->
        [ g.nodes[i] EXCEPT !.args = [ k \in DOMAIN g.nodes[i].args |->
            IF << i, k >> \in consumers THEN source ELSE g.nodes[i].args[k] ] ] ] ]

\* Shape inference of one node: a Gather with a vector of indices replaces the
\* gathered axis of its data by the length of the indices, a Result and an
\* Assign take their source's shape; every other node keeps its declared shape.
RECURSIVE InferShape(_, _)
InferShape(g, id) ==
    LET n == g.nodes[id]
    IN  IF n.op = "Gather"
        THEN LET data == InferShape(g, n.args[1])
                 indices == InferShape(g, n.args[2])
             IN  [ data EXCEPT ![n.axis + 1] = indices[1] ]
        ELSE IF n.op \in { "Result", "Assign" }
        THEN InferShape(g, n.args[1])
        ELSE n.shape

validate_nodes_and_infer_types(g) ==
    [ g EXCEPT !.nodes = [ i \in DOMAIN g.nodes |->
        [ g.nodes[i] EXCEPT !.shape = InferShape(g, i) ] ] ]

\* ------------------------------------------------------------- initial graphs
\* input_ids, attention_mask (rank 2), a rank-3 side input, an optional port
\* named "beam_idx", n key-value inputs each read by two consumer edges, the
\* logits output and n key-value outputs.
BaseNodes(ids_batch) ==
    << Parameter({ "input_ids" }, << ids_batch, Dynamic >>, "i64"),
       Parameter({ "attention_mask" }, << ids_batch, Dynamic >>, "i64"),
       Parameter({ "encoder_hidden_states" }, << ids_batch, Dynamic, 4 >>, "f32"),
       Node("Op", {}, << 1, 2, 3 >>, << ids_batch, Dynamic, 4 >>, "f32") >>

EmptyGraph ==
    [ nodes |-> << >>, parameters |-> << >>, results |-> << >>, sinks |-> << >>,
      next |-> 1 ]

AddParameter(g, n) ==
    [ AddNode(g, n) EXCEPT !.parameters = Append(g.parameters, g.next) ]

AddResult(g, n) ==
    [ AddNode(g, n) EXCEPT !.results = Append(g.results, g.next) ]

RECURSIVE AddKVPairs(_, _, _)
AddKVPairs(g, i, n) ==
    IF i > n THEN g
    ELSE LET past == g.next
             g1 == AddParameter(g, Parameter({ KVInputNames[i] },
                                             << Dynamic, Dynamic, 4 >>, "f32"))
             attn == g1.next
             g2 == AddNode(g1, Node("Op", {}, << 4, past >>, << Dynamic, Dynamic, 4 >>, "f32"))
             concat == g2.next
             g3 == AddNode(g2, Node("Op", {}, << past, attn >>, << Dynamic, Dynamic, 4 >>, "f32"))
             g4 == AddResult(g3, Node("Result", { KVOutputNames[i] }, << concat >>,
                                      << Dynamic, Dynamic, 4 >>, "f32"))
         IN  AddKVPairs(g4, i + 1, n)

InitialGraph(n, beam, ids_batch) ==
    LET base == BaseNodes(ids_batch)
        g0 == [ EmptyGraph EXCEPT !.nodes = base, !.parameters = << 1, 2, 3 >>, !.next = 5 ]
        g1 == IF beam = "input"
              THEN AddParameter(g0, Parameter({ "beam_idx" }, << ids_batch >>, "i32"))
              ELSE g0
        g2 == AddKVPairs(g1, 1, n)
        logits == IF beam = "output" THEN { "logits", "beam_idx" } ELSE { "logits" }
    IN  AddResult(g2, Node("Result", logits, << 4 >>, << ids_batch, Dynamic, 4 >>, "f32"))

\* ------------------------------------------------------------- state
VARIABLES
    ov_model,                \* the graph being rewritten
    ov_model_before,         \* the graph as it was when the current call began
    before_make_stateful,    \* the graph as it was when make_stateful was entered
    model,                   \* the model metadata object given to patch_stateful
    pc,                      \* the statement the current call is at
    entry,                   \* the function the caller called
    calls,                   \* calls made so far
    not_kv_inputs,           \* the caller's list of non-cache input ports
    key_value_input_names,
    key_value_output_names,
    gather_dim,
    batch_dim,
    num_attention_heads,
    num_beams_and_batch,
    input_output_map,        \* make_stateful's dict, as its items in order
    ov_version,              \* the engine version the gate last saw
    error,                   \* the exception that ended the call, "" if none
    warnings,                \* the inputs named in printed warnings
    trace                    \* the statements the current call has run

vars ==
    << ov_model, ov_model_before, before_make_stateful, model, pc, entry, calls, not_kv_inputs,
       key_value_input_names, key_value_output_names, gather_dim, batch_dim,
       num_attention_heads, num_beams_and_batch, input_output_map, ov_version,
       error, warnings, trace >>

frame ==
    << not_kv_inputs, key_value_input_names, key_value_output_names, gather_dim,
       batch_dim, num_attention_heads, num_beams_and_batch, input_output_map >>

ModelTypes == { "llama", "chatglm", "bloom" }

\* Engine versions as <<year, release>>.
Versions == { << 2023, 2 >>, << 2023, 3 >> }

BeamPorts == { "none", "input", "output" }

\* The batch extent of input_ids in an initial graph: dynamic or static.
IdsBatches == { Dynamic, 3 }

Init ==
    /\ \E n \in 1..MaxKV, beam \in BeamPorts, ids_batch \in IdsBatches :
         /\ ov_model = InitialGraph(n, beam, ids_batch)
         /\ model = [ key_value_input_names |-> SubSeq(KVInputNames, 1, n),
                      key_value_output_names |-> SubSeq(KVOutputNames, 1, n),
                      model_type |-> "llama",
                      num_attention_heads |-> 1 ]
    /\ ov_model_before = ov_model
    /\ before_make_stateful = EmptyGraph
    /\ pc = "start"
    /\ entry = ""
    /\ calls = 0
    /\ not_kv_inputs = << >>
    /\ key_value_input_names = << >>
    /\ key_value_output_names = << >>
    /\ gather_dim = 0
    /\ batch_dim = 0
    /\ num_attention_heads = 1
    /\ num_beams_and_batch = None
    /\ input_output_map = << >>
    /\ ov_version = << 2023, 3 >>
    /\ error = ""
    /\ warnings = << >>
    /\ trace = << >>

\* ------------------------------------------------------------- fuse_cache_reorder
\* A fault of the loop: only one of the consumer edges is redirected.
RECURSIVE FuseGathers_OneConsumer(_, _, _, _, _)
FuseGathers_OneConsumer(g, names, beam_idx, dim, i) ==
    IF i > Len(names) THEN [ ok |-> TRUE, g |-> g ]
    ELSE IF ~model_has_input(g, names[i]) THEN [ ok |-> FALSE, g |-> g ]
    ELSE LET parameter_output_port == InputPort(g, names[i])
             consumers == get_target_inputs(g, parameter_output_port)
             gather == g.next
             g1 == AddNode(g, Gather(parameter_output_port, beam_idx, dim))
         IN  FuseGathers_OneConsumer(
                 replace_source_output(g1, { CHOOSE e \in consumers : TRUE }, gather),
                 names, beam_idx, dim, i + 1)

\* The loop of lines 56-61 from the i-th name on.  ok is FALSE when
\* ov_model.input(input_name) raises; the gathers already spliced in stay.
RECURSIVE FuseGathers(_, _, _, _, _)
FuseGathers(g, names, beam_idx, dim, i) ==
    IF i > Len(names) THEN [ ok |-> TRUE, g |-> g ]
    ELSE IF ~model_has_input(g, names[i]) THEN [ ok |-> FALSE, g |-> g ]
    ELSE LET parameter_output_port == InputPort(g, names[i])
             consumers == get_target_inputs(g, parameter_output_port)
             gather == g.next
             g1 == AddNode(g, Gather(parameter_output_port, beam_idx, dim))
         IN  FuseGathers(replace_source_output(g1, consumers, gather),
                         names, beam_idx, dim, i + 1)

\* A fault of line 50: the extent of the wrong axis of input_ids.
BeamIdxParameter_SequenceAxis(g) ==
    LET input_batch == g.nodes[InputPort(g, "input_ids")].shape[2]
    IN  Parameter({ "beam_idx" }, << input_batch >>, "i32")

\* The new parameter of lines 50-53.
BeamIdxParameter(g) ==
    LET input_batch == g.nodes[InputPort(g, "input_ids")].shape[1]
    IN  Parameter({ "beam_idx" }, << input_batch >>, "i32")

\* The whole function: the exception raised ("" for none), the graph and the
\* caller's list as the call leaves them.
FuseCacheReorder(g, nkv, names, dim) ==
    IF model_has_name(g, "beam_idx")
    THEN [ error |-> "AssertionError", g |-> g, not_kv_inputs |-> nkv ]
    ELSE IF ~model_has_input(g, "input_ids")
    THEN [ error |-> "RuntimeError", g |-> g, not_kv_inputs |-> nkv ]
    ELSE LET g1 == AddParameter(g, BeamIdxParameter(g))
             nkv1 == Append(nkv, g1.parameters[Len(g1.parameters)])
             r == FuseGathers(g1, names, g.next, dim, 1)
         IN  IF r.ok
             THEN [ error |-> "", g |-> validate_nodes_and_infer_types(r.g),
                    not_kv_inputs |-> nkv1 ]
             ELSE [ error |-> "RuntimeError", g |-> r.g, not_kv_inputs |-> nkv1 ]

\* ------------------------------------------------------------- patch_stateful
\* A fault of patch_stateful: the version gate runs after the fusion.
patch_stateful_stages_GateLate ==
    << "patch_stateful_arguments", "fuse_cache_reorder",
       "raise_if_openvino_is_too_old", "make_stateful" >>

\* A fault of patch_stateful: the fusion is left out.
patch_stateful_stages_NoFuse ==
    << "raise_if_openvino_is_too_old", "patch_stateful_arguments", "make_stateful" >>

\* The calls patch_stateful makes, in order.
patch_stateful_stages ==
    << "raise_if_openvino_is_too_old", "patch_stateful_arguments",
       "fuse_cache_reorder", "make_stateful" >>

\* Where control goes when `stage` returns normally.
Continue(stage) ==
    IF entry = "patch_stateful"
    THEN LET i == CHOOSE k \in DOMAIN patch_stateful_stages :
                      patch_stateful_stages[k] = stage
         IN  IF i < Len(patch_stateful_stages)
             THEN patch_stateful_stages[i + 1] ELSE "returned"
    ELSE "returned"

\* is_openvino_version("<=", "2023.2")
is_openvino_version_le_2023_2(v) ==
    \/ v[1] < 2023
    \/ v[1] = 2023 /\ v[2] <= 2

\* line 129
NotKVInputs(g, names) ==
    SelectSeq(g.parameters,
              LAMBDA p : ~(\E name \in g.nodes[p].names : name \in Range(names)))

CanCall == pc \in { "start", "returned", "raised" } /\ calls < MaxCalls

Enter(fn, first) ==
    /\ CanCall
    /\ entry' = fn
    /\ pc' = first
    /\ calls' = calls + 1
    /\ ov_model_before' = ov_model
    /\ before_make_stateful' = EmptyGraph
    /\ error' = ""
    /\ warnings' = << >>
    /\ trace' = << >>
    /\ input_output_map' = << >>
    /\ UNCHANGED << ov_model, ov_version >>

Call_patch_stateful ==
    /\ Enter("patch_stateful", patch_stateful_stages[1])
    /\ \E t \in ModelTypes, h \in 1..MaxHeads :
         model' = [ model EXCEPT !.model_type = t, !.num_attention_heads = h ]
    /\ not_kv_inputs' = << >>
    /\ key_value_input_names' = << >>
    /\ key_value_output_names' = << >>
    /\ gather_dim' = 0
    /\ batch_dim' = 0
    /\ num_attention_heads' = 1
    /\ num_beams_and_batch' = None

raise_if_openvino_is_too_old ==
    /\ pc = "raise_if_openvino_is_too_old"
    /\ \E v \in Versions :
         /\ ov_version' = v
         /\ IF is_openvino_version_le_2023_2(v)
            THEN pc' = "raised" /\ error' = "ValueError"
            ELSE pc' = Continue(pc) /\ error' = error
    /\ trace' = Append(trace, pc)
    /\ UNCHANGED << ov_model, ov_model_before, before_make_stateful, model, entry, calls,
                    frame, warnings >>

\* Lines 129-146 without the two calls: the arguments patch_stateful passes.
patch_stateful_arguments ==
    /\ pc = "patch_stateful_arguments"
    /\ not_kv_inputs' = NotKVInputs(ov_model, model.key_value_input_names)
    /\ batch_dim' = IF model.model_type = "chatglm" THEN 1 ELSE 0
    /\ gather_dim' = batch_dim'
    /\ num_attention_heads' =
         IF model.model_type = "bloom" THEN model.num_attention_heads ELSE 1
    /\ key_value_input_names' = model.key_value_input_names
    /\ key_value_output_names' = model.key_value_output_names
    /\ num_beams_and_batch' = None
    /\ pc' = Continue(pc)
    /\ trace' = Append(trace, pc)
    /\ UNCHANGED << ov_model, ov_model_before, before_make_stateful, model, entry, calls,
                    input_output_map, ov_version, error, warnings >>

Call_fuse_cache_reorder ==
    /\ Enter("fuse_cache_reorder", "fuse_cache_reorder")
    /\ not_kv_inputs' = NotKVInputs(ov_model, model.key_value_input_names)
    /\ key_value_input_names' = model.key_value_input_names
    /\ \E d \in { 0, 1 } : gather_dim' = d
    /\ key_value_output_names' = << >>
    /\ batch_dim' = 0
    /\ num_attention_heads' = 1
    /\ num_beams_and_batch' = None
    /\ UNCHANGED model

fuse_cache_reorder ==
    /\ pc = "fuse_cache_reorder"
    /\ LET r == FuseCacheReorder(ov_model, not_kv_inputs, key_value_input_names, gather_dim)
       IN  /\ ov_model' = r.g
           /\ not_kv_inputs' = r.not_kv_inputs
           /\ error' = r.error
           /\ pc' = IF r.error = "" THEN Continue(pc) ELSE "raised"
    /\ trace' = Append(trace, pc)
    /\ UNCHANGED << ov_model_before, before_make_stateful, model, entry, calls,
                    key_value_input_names, key_value_output_names, gather_dim, batch_dim, num_attention_heads,
                    num_beams_and_batch, input_output_map, ov_version, warnings >>

\* ------------------------------------------------------------- make_stateful
\* d[k] = v on a Python dict kept as its items in insertion order.
DictSet(d, k, v) ==
    IF \E i \in DOMAIN d : d[i][1] = k
    THEN [ i \in DOMAIN d |-> IF d[i][1] = k THEN << k, v >> ELSE d[i] ]
    ELSE Append(d, << k, v >>)

DictKeys(d) == { d[i][1] : i \in DOMAIN d }

DictGet(d, k) == d[CHOOSE i \in DOMAIN d : d[i][1] = k][2]

\* zip(a, b) stops at the end of the shorter list.
ZipLen(a, b) == IF Len(a) <= Len(b) THEN Len(a) ELSE Len(b)

\* input.get_node().set_partial_shape(shape) after shape[axis] = extent.
SetDim(g, port, axis, extent) ==
    [ g EXCEPT !.nodes[port].shape[axis + 1] = extent ]

\* A fault of line 99: the batch size is set whatever the rank.
RECURSIVE PinNotKVInputs_AnyRank(_, _, _, _, _)
PinNotKVInputs_AnyRank(g, w, nkv, b, i) ==
    IF i > Len(nkv) THEN [ g |-> g, warnings |-> w ]
    ELSE PinNotKVInputs_AnyRank(SetDim(g, nkv[i], 0, b), w, nkv, b, i + 1)

\* Lines 97-103 from the i-th input of the list on.
RECURSIVE PinNotKVInputs(_, _, _, _, _)
PinNotKVInputs(g, w, nkv, b, i) ==
    IF i > Len(nkv) THEN [ g |-> g, warnings |-> w ]
    ELSE LET input == nkv[i]
             shape == g.nodes[input].shape
         IN  IF Len(shape) <= 2
             THEN PinNotKVInputs(SetDim(g, input, 0, b), w, nkv, b, i + 1)
             ELSE PinNotKVInputs(g, Append(w, CHOOSE name \in g.nodes[input].names : TRUE),
                                 nkv, b, i + 1)

\* A fault of line 110: the attention heads are not multiplied in.
RECURSIVE PairKeyValues_NoHeads(_, _, _, _, _, _, _, _)
PairKeyValues_NoHeads(g, map, ins, outs, dim, heads, b, i) ==
    IF i > ZipLen(ins, outs) THEN [ ok |-> TRUE, g |-> g, map |-> map ]
    ELSE LET map1 == DictSet(map, ins[i], outs[i])
         IN  IF b = None
             THEN PairKeyValues_NoHeads(g, map1, ins, outs, dim, heads, b, i + 1)
             ELSE IF ~model_has_input(g, ins[i])
             THEN [ ok |-> FALSE, g |-> g, map |-> map1 ]
             ELSE PairKeyValues_NoHeads(SetDim(g, InputPort(g, ins[i]), dim, b[1]),
                                        map1, ins, outs, dim, heads, b, i + 1)

\* A fault of line 106: every input name is paired with the first output name.
RECURSIVE PairKeyValues_FirstOutput(_, _, _, _, _, _, _, _)
PairKeyValues_FirstOutput(g, map, ins, outs, dim, heads, b, i) ==
    IF i > ZipLen(ins, outs) THEN [ ok |-> TRUE, g |-> g, map |-> map ]
    ELSE PairKeyValues_FirstOutput(g, DictSet(map, ins[i], outs[1]),
                                   ins, outs, dim, heads, b, i + 1)

\* Lines 105-111 from the i-th pair of zip(...) on.  ok is FALSE when
\* ov_model.input(kv_name_pair[0]) raises.
RECURSIVE PairKeyValues(_, _, _, _, _, _, _, _)
PairKeyValues(g, map, ins, outs, dim, heads, b, i) ==
    IF i > ZipLen(ins, outs) THEN [ ok |-> TRUE, g |-> g, map |-> map ]
    ELSE LET map1 == DictSet(map, ins[i], outs[i])
         IN  IF b = None
             THEN PairKeyValues(g, map1, ins, outs, dim, heads, b, i + 1)
             ELSE IF ~model_has_input(g, ins[i])
             THEN [ ok |-> FALSE, g |-> g, map |-> map1 ]
             ELSE PairKeyValues(SetDim(g, InputPort(g, ins[i]), dim, b[1] * heads),
                                map1, ins, outs, dim, heads, b, i + 1)

\* Lines 92-115: the graph, the dict and the warnings before line 117.
MakeStatefulPrepare(g, nkv, ins, outs, dim, heads, b) ==
    LET pinned == IF b # None
                  THEN PinNotKVInputs(g, << >>, nkv, b[1], 1)
                  ELSE [ g |-> g, warnings |-> << >> ]
        paired == PairKeyValues(pinned.g, << >>, ins, outs, dim, heads, b, 1)
    IN  [ ok |-> paired.ok,
          g |-> IF paired.ok /\ b # None
                THEN validate_nodes_and_infer_types(paired.g) ELSE paired.g,
          map |-> paired.map,
          warnings |-> pinned.warnings ]

\* The engine's transform on one pair: the input becomes a ReadValue read by the
\* input's consumers, the output an Assign of what the output read.
MakeStatefulPair(g, in, out) ==
    LET p == InputPort(g, in)
        r == OutputPort(g, out)
        read == g.next
        g1 == AddNode(g, [ Node("ReadValue", {}, << >>, g.nodes[p].shape, g.nodes[p].type)
                             EXCEPT !.variable = << in, out >> ])
        g2 == replace_source_output(g1, get_target_inputs(g1, p), read)
        assign == g2.next
        g3 == AddNode(g2, [ Node("Assign", {}, << g2.nodes[r].args[1] >>,
                                 g2.nodes[r].shape, g2.nodes[r].type)
                              EXCEPT !.variable = << in, out >> ])
        g4 == RemoveNode(RemoveNode(g3, p), r)
    IN  [ g4 EXCEPT !.parameters = SelectSeq(g3.parameters, LAMBDA x : x # p),
                    !.results = SelectSeq(g3.results, LAMBDA x : x # r),
                    !.sinks = Append(g3.sinks, assign) ]

RECURSIVE MakeStatefulPairs(_, _, _)
MakeStatefulPairs(g, map, i) ==
    IF i > Len(map) THEN g
    ELSE MakeStatefulPairs(MakeStatefulPair(g, map[i][1], map[i][2]), map, i + 1)

\* apply_make_stateful_transformation(ov_model, input_output_map): atomic; it
\* raises, changing nothing, when a name of the map is no port of the graph.
apply_make_stateful_transformation(g, map) ==
    IF \A i \in DOMAIN map : model_has_input(g, map[i][1])
                             /\ map[i][2] \in NamesOf(g, g.results)
    THEN [ ok |-> TRUE, g |-> MakeStatefulPairs(g, map, 1) ]
    ELSE [ ok |-> FALSE, g |-> g ]

\* ------------------------------------------------------------- build_state_initializer
\* dim.min_length of a dimension: 0 when it is dynamic.
min_length(dim) == IF dim = Dynamic THEN 0 ELSE dim

\* A fault of line 72: the batch extent is always put on axis 0.
InitializerShape_Axis0(shape, dim, input_ids) ==
    [ k \in DOMAIN shape |->
        IF k = 1 THEN << "shape_of", input_ids, 0 >>
        ELSE << "constant", min_length(shape[k]) >> ]

\* The shape given to the broadcast of lines 71-74: one expression per
\* dimension, a constant or (at batch_dim) element 0 of ShapeOf(input_ids).
InitializerShape(shape, dim, input_ids) ==
    [ k \in DOMAIN shape |->
        IF k = dim + 1 THEN << "shape_of", input_ids, 0 >>
        ELSE << "constant", min_length(shape[k]) >> ]

\* Lines 70-76 for one ReadValue.
SetInitializer(g, op, dim, input_ids) ==
    LET broadcast == g.next
        g1 == AddNode(g, [ Node("Broadcast", {}, << >>, << >>, g.nodes[op].type)
                             EXCEPT !.value = 0,
                                    !.target = InitializerShape(g.nodes[op].shape, dim,
                                                                input_ids) ])
    IN  [ g1 EXCEPT !.nodes[op].args = << broadcast >> ]

ReadValues(g) == { i \in DOMAIN g.nodes : g.nodes[i].op = "ReadValue" }

RECURSIVE SetInitializers(_, _, _, _)
SetInitializers(g, ops, dim, input_ids) ==
    IF ops = {} THEN g
    ELSE LET op == CHOOSE x \in ops : \A y \in ops : x <= y
         IN  SetInitializers(SetInitializer(g, op, dim, input_ids), ops \ { op },
                             dim, input_ids)

BuildStateInitializer(g, dim) ==
    IF ~model_has_input(g, "input_ids") THEN [ ok |-> FALSE, g |-> g ]
    ELSE [ ok |-> TRUE,
           g |-> validate_nodes_and_infer_types(
                     SetInitializers(g, ReadValues(g), dim, InputPort(g, "input_ids"))) ]

\* ------------------------------------------------------------- make_stateful's steps
Call_make_stateful ==
    /\ Enter("make_stateful", "make_stateful")
    /\ not_kv_inputs' = NotKVInputs(ov_model, model.key_value_input_names)
    /\ key_value_input_names' = model.key_value_input_names
    /\ key_value_output_names' = model.key_value_output_names
    /\ \E d \in { 0, 1 } : batch_dim' = d
    /\ \E h \in 1..MaxHeads : num_attention_heads' = h
    /\ \E b \in { None } \cup { Some(x) : x \in 1..MaxBatch } : num_beams_and_batch' = b
    /\ gather_dim' = 0
    /\ UNCHANGED model

\* Lines 92-115.
make_stateful ==
    /\ pc = "make_stateful"
    /\ LET r == MakeStatefulPrepare(ov_model, not_kv_inputs, key_value_input_names,
                                    key_value_output_names, batch_dim,
                                    num_attention_heads, num_beams_and_batch)
       IN  /\ ov_model' = r.g
           /\ input_output_map' = r.map
           /\ warnings' = r.warnings
           /\ error' = IF r.ok THEN "" ELSE "RuntimeError"
           /\ pc' = IF r.ok THEN "apply_make_stateful_transformation" ELSE "raised"
    /\ before_make_stateful' = ov_model
    /\ trace' = Append(trace, pc)
    /\ UNCHANGED << ov_model_before, model, entry, calls, not_kv_inputs,
                    key_value_input_names, key_value_output_names, gather_dim, batch_dim,
                    num_attention_heads, num_beams_and_batch, ov_version >>

\* A fault of line 118: the initializer is built whatever the batch size.
AfterTransformation_Always(b) == "build_state_initializer"

\* Lines 118-119: the initializer is built when no batch size was pinned.
AfterTransformation(b) ==
    IF b = None THEN "build_state_initializer" ELSE Continue("make_stateful")

\* Line 117.
make_stateful_apply ==
    /\ pc = "apply_make_stateful_transformation"
    /\ LET r == apply_make_stateful_transformation(ov_model, input_output_map)
       IN  /\ ov_model' = r.g
           /\ error' = IF r.ok THEN "" ELSE "RuntimeError"
           /\ pc' = IF r.ok THEN AfterTransformation(num_beams_and_batch) ELSE "raised"
    /\ trace' = Append(trace, pc)
    /\ UNCHANGED << ov_model_before, before_make_stateful, model, entry, calls, frame,
                    ov_version, warnings >>

\* Lines 118-119 with lines 65-77.
build_state_initializer ==
    /\ pc = "build_state_initializer"
    /\ LET r == BuildStateInitializer(ov_model, batch_dim)
       IN  /\ ov_model' = r.g
           /\ error' = IF r.ok THEN "" ELSE "RuntimeError"
           /\ pc' = IF r.ok THEN Continue("make_stateful") ELSE "raised"
    /\ trace' = Append(trace, pc)
    /\ UNCHANGED << ov_model_before, before_make_stateful, model, entry, calls, frame,
                    ov_version, warnings >>

Next ==
    \/ Call_patch_stateful
    \/ raise_if_openvino_is_too_old
    \/ patch_stateful_arguments
    \/ Call_fuse_cache_reorder
    \/ fuse_cache_reorder
    \/ Call_make_stateful
    \/ make_stateful
    \/ make_stateful_apply
    \/ build_state_initializer

Spec == Init /\ [][Next]_vars

\* ------------------------------------------------------------- name lists
\* make_stateful on every pair of name lists of at most MaxLen names, with no
\* pinned batch size: lines 92-115 build the dict and read no port.
InputNames == { KVInputNames[i] : i \in 1..3 }

OutputNames == { KVOutputNames[i] : i \in 1..3 }

NameLists(S) == UNION { [ 1..n -> S ] : n \in 0..MaxLen }

InitLists ==
    /\ key_value_input_names \in NameLists(InputNames)
    /\ key_value_output_names \in NameLists(OutputNames)
    /\ ov_model = InitialGraph(1, "none", Dynamic)
    /\ model = [ key_value_input_names |-> key_value_input_names,
                 key_value_output_names |-> key_value_output_names,
                 model_type |-> "llama",
                 num_attention_heads |-> 1 ]
    /\ ov_model_before = ov_model
    /\ before_make_stateful = EmptyGraph
    /\ pc = "make_stateful"
    /\ entry = "make_stateful"
    /\ calls = 1
    /\ not_kv_inputs = NotKVInputs(ov_model, key_value_input_names)
    /\ gather_dim = 0
    /\ batch_dim = 0
    /\ num_attention_heads = 1
    /\ num_beams_and_batch = None
    /\ input_output_map = << >>
    /\ ov_version = << 2023, 3 >>
    /\ error = ""
    /\ warnings = << >>
    /\ trace = << >>

SpecLists == InitLists /\ [][make_stateful]_vars

\* ------------------------------------------------------------- properties
Last(s) == s[Len(s)]

\* The statement that ran last in the current call.
Ran(stage) == trace # << >> /\ Last(trace) = stage

\* fuse_cache_reorder has just returned normally.  Nothing patch_stateful does
\* before it changes the graph, so ov_model_before is the graph it was given.
FuseReturned == Ran("fuse_cache_reorder") /\ error = ""

\* C1: after fuse_cache_reorder has run on a graph with no "beam_idx" port, for
\* every key-value input name there is a new Gather of that input along
\* gather_dim with the beam_idx parameter as indices; every consumer edge that
\* read the input before the call reads that Gather, and the Gather is the one
\* consumer of the input.
C1_ConsumersReadGather ==
    FuseReturned =>
        \A i \in DOMAIN key_value_input_names :
            LET port == InputPort(ov_model_before, key_value_input_names[i])
                before == get_target_inputs(ov_model_before, port)
            IN  \E gather \in DOMAIN ov_model.nodes \ DOMAIN ov_model_before.nodes :
                    /\ ov_model.nodes[gather].op = "Gather"
                    /\ ov_model.nodes[gather].args
                         = << port, InputPort(ov_model, "beam_idx") >>
                    /\ ov_model.nodes[gather].axis = gather_dim
                    /\ \A e \in before : ov_model.nodes[e[1]].args[e[2]] = gather
                    /\ get_target_inputs(ov_model, port) = { << gather, 1 >> }

C1_Witness ==
    /\ FuseReturned
    /\ Len(key_value_input_names) >= 2
    /\ gather_dim = 1
    /\ \A i \in DOMAIN key_value_input_names :
         Cardinality(get_target_inputs(
             ov_model_before, InputPort(ov_model_before, key_value_input_names[i]))) = 2

\* C2: after fuse_cache_reorder has run, the parameter list is the one before
\* the call with one port appended; that port is named "beam_idx", is an i32
\* vector as long as the batch extent (axis 0) of input_ids, and is the port
\* appended to the caller's non-cache-input list; the other inputs are as before.
C2_OneNewBeamIdxInput ==
    FuseReturned =>
        LET old == ov_model_before.parameters
            new == Last(ov_model.parameters)
            input_ids == ov_model_before.nodes[InputPort(ov_model_before, "input_ids")]
        IN  /\ ~model_has_name(ov_model_before, "beam_idx")
            /\ ov_model.parameters = Append(old, new)
            /\ new \notin DOMAIN ov_model_before.nodes
            /\ ov_model.nodes[new].op = "Parameter"
            /\ ov_model.nodes[new].names = { "beam_idx" }
            /\ ov_model.nodes[new].type = "i32"
            /\ ov_model.nodes[new].shape = << input_ids.shape[1] >>
            /\ not_kv_inputs
                 = Append(NotKVInputs(ov_model_before, key_value_input_names), new)
            /\ \A i \in DOMAIN old :
                 /\ ov_model.nodes[old[i]].names = ov_model_before.nodes[old[i]].names
                 /\ ov_model.nodes[old[i]].shape = ov_model_before.nodes[old[i]].shape

C2_Witness ==
    /\ FuseReturned
    /\ entry = "fuse_cache_reorder"
    /\ ov_model.nodes[Last(ov_model.parameters)].shape = << 3 >>
    /\ Last(not_kv_inputs) = Last(ov_model.parameters)

\* ------------------------------------------------------------- persistent state
\* The concrete shapes a partial shape admits.
RuntimeShapes(shape) ==
    { s \in [ DOMAIN shape -> (1..MaxBatch) \cup (Range(shape) \ { Dynamic }) ] :
        \A k \in DOMAIN shape : shape[k] # Dynamic => s[k] = shape[k] }

\* The value of one dimension expression when input_ids has the shape `runtime`.
EvalDim(e, runtime) == IF e[1] = "constant" THEN e[2] ELSE runtime[e[3] + 1]

\* The read's initializer is a broadcast of zero of the read's element type whose
\* extent on axis `dim` is, for every shape input_ids may have, input_ids's batch.
HasZeroInitializer(g, read, dim) ==
    LET input_ids == InputPort(g, "input_ids")
    IN  /\ Len(g.nodes[read].args) = 1
        /\ LET broadcast == g.nodes[g.nodes[read].args[1]]
           IN  /\ broadcast.op = "Broadcast"
               /\ broadcast.value = 0
               /\ broadcast.type = g.nodes[read].type
               /\ Len(broadcast.target) = Len(g.nodes[read].shape)
               /\ \A k \in DOMAIN broadcast.target :
                    broadcast.target[k][1] = "shape_of" => broadcast.target[k][2] = input_ids
               /\ \A runtime \in RuntimeShapes(g.nodes[input_ids].shape) :
                    EvalDim(broadcast.target[dim + 1], runtime) = runtime[1]

\* The read/write pairs of the graph that `old` did not have.
NewStatePairs(g, old) ==
    { rw \in (ReadValues(g) \ DOMAIN old.nodes) \X (Range(g.sinks) \ Range(old.sinks)) :
        /\ g.nodes[rw[2]].op = "Assign"
        /\ g.nodes[rw[2]].variable = g.nodes[rw[1]].variable }

IsKVInput(g, p) == \E name \in g.nodes[p].names : name \in Range(key_value_input_names)

\* Every key-value name of the call is a port of the graph make_stateful was given.
NamesResolve(g) ==
    /\ \A i \in DOMAIN key_value_input_names :
         model_has_input(g, key_value_input_names[i])
    /\ \A i \in DOMAIN key_value_output_names :
         key_value_output_names[i] \in NamesOf(g, g.results)

Pinned == num_beams_and_batch # None

\* make_stateful has returned normally.
MakeStatefulReturned ==
    /\ error = ""
    /\ \/ Ran("build_state_initializer")
       \/ Ran("apply_make_stateful_transformation") /\ pc # "build_state_initializer"

\* C3: after make_stateful with num_beams_and_batch = None on a graph with N
\* key-value pairs, the graph has N inputs fewer and N outputs fewer than when
\* make_stateful was entered, and N new read/write pairs, one per name pair,
\* each read initialised by a zero broadcast whose batch_dim extent is the batch
\* extent of input_ids at run time.
C3_StatefulDynamicBatch ==
    (Ran("build_state_initializer") /\ error = "") =>
        LET n == Len(key_value_input_names)
            old == before_make_stateful
            pairs == NewStatePairs(ov_model, old)
        IN  /\ Len(ov_model.parameters) = Len(old.parameters) - n
            /\ Len(ov_model.results) = Len(old.results) - n
            /\ Cardinality(pairs) = n
            /\ Cardinality(ReadValues(ov_model) \ DOMAIN old.nodes) = n
            /\ Len(ov_model.sinks) = Len(old.sinks) + n
            /\ \A i \in DOMAIN key_value_input_names :
                 \E rw \in pairs :
                     ov_model.nodes[rw[1]].variable
                       = << key_value_input_names[i], key_value_output_names[i] >>
            /\ \A rw \in pairs : HasZeroInitializer(ov_model, rw[1], batch_dim)

C3_Witness ==
    /\ Ran("build_state_initializer")
    /\ error = ""
    /\ entry = "make_stateful"
    /\ batch_dim = 1
    /\ Len(key_value_input_names) >= 2
    /\ ov_model.nodes[InputPort(ov_model, "input_ids")].shape[1] = Dynamic
    /\ Cardinality(NewStatePairs(ov_model, before_make_stateful)) >= 2

\* C4: when make_stateful with a pinned num_beams_and_batch = B is about to call
\* the state conversion, every non-key-value input of rank <= 2 has extent B on
\* axis 0 and every key-value input has extent B * num_attention_heads on axis
\* batch_dim.
C4_PinnedExtents ==
    (pc = "apply_make_stateful_transformation" /\ Pinned) =>
        \A p \in Range(ov_model.parameters) :
            LET shape == ov_model.nodes[p].shape
            IN  IF IsKVInput(ov_model, p)
                THEN shape[batch_dim + 1] = num_beams_and_batch[1] * num_attention_heads
                ELSE Len(shape) <= 2 => shape[1] = num_beams_and_batch[1]

C4_Witness ==
    /\ pc = "apply_make_stateful_transformation"
    /\ num_beams_and_batch = Some(2)
    /\ num_attention_heads = 2
    /\ batch_dim = 1
    /\ \E p \in Range(ov_model.parameters) :
         IsKVInput(ov_model, p) /\ ov_model.nodes[p].shape = << Dynamic, 4, 4 >>
    /\ \E p \in Range(ov_model.parameters) : ov_model.nodes[p].shape = << 2 >>

\* C5: once the gate of a patch_stateful call has seen a version at or below
\* 2023.2, the call has raised the version error, the gate is the only
\* statement it ran, and the graph and the caller's list are as they were.
C5_GateBeforeMutation ==
    ( /\ entry = "patch_stateful"
      /\ "raise_if_openvino_is_too_old" \in Range(trace)
      /\ is_openvino_version_le_2023_2(ov_version) ) =>
        /\ pc = "raised"
        /\ error = "ValueError"
        /\ trace = << "raise_if_openvino_is_too_old" >>
        /\ ov_model = ov_model_before
        /\ not_kv_inputs = << >>

C5_Witness ==
    /\ entry = "patch_stateful"
    /\ pc = "raised"
    /\ error = "ValueError"
    /\ ov_version = << 2023, 2 >>
    /\ ~model_has_name(ov_model, "beam_idx")

\* C6: fuse_cache_reorder leaves a port named "beam_idx" in the graph when it
\* returns, and on a graph where an input or an output carries that name it
\* raises the assertion error and changes nothing: so a second call on the
\* result of a first one fails.
C6_SecondFuseFails ==
    /\ FuseReturned => model_has_input(ov_model, "beam_idx")
    /\ ( /\ Ran("fuse_cache_reorder")
         /\ \E p \in Range(ov_model_before.parameters \o ov_model_before.results) :
              "beam_idx" \in ov_model_before.nodes[p].names ) =>
           /\ pc = "raised"
           /\ error = "AssertionError"
           /\ ov_model = ov_model_before

\* A second fuse_cache_reorder on the graph a first one produced.
C6_Witness ==
    /\ Ran("fuse_cache_reorder")
    /\ error = "AssertionError"
    /\ calls = 2
    /\ \E i \in DOMAIN ov_model_before.nodes : ov_model_before.nodes[i].op = "Gather"
    /\ ov_model_before.sinks = << >>

\* C7: in a make_stateful call with a pinned batch size whose key-value names
\* are ports of the graph, a non-key-value input of rank > 2 raises nothing:
\* its name is in the printed warnings, its shape is as it was, every other
\* listed input has the pinned extent, and the state conversion runs.
C7_RankWarningNonFatal ==
    ( /\ Pinned
      /\ "make_stateful" \in Range(trace)
      /\ NamesResolve(before_make_stateful) ) =>
        LET old == before_make_stateful
            high == { p \in Range(not_kv_inputs) : Len(old.nodes[p].shape) > 2 }
        IN  /\ error = ""
            /\ pc \in { "apply_make_stateful_transformation", Continue("make_stateful") }
            /\ Len(warnings) = Cardinality(high)
            /\ \A p \in high :
                 /\ \E name \in old.nodes[p].names : name \in Range(warnings)
                 /\ ov_model.nodes[p].shape = old.nodes[p].shape
            /\ \A p \in Range(not_kv_inputs) \ high :
                 ov_model.nodes[p].shape[1] = num_beams_and_batch[1]
            /\ pc = "apply_make_stateful_transformation" =>
                 \A i \in DOMAIN key_value_input_names :
                     ov_model.nodes[InputPort(ov_model, key_value_input_names[i])]
                         .shape[batch_dim + 1]
                       = num_beams_and_batch[1] * num_attention_heads
            /\ Ran("apply_make_stateful_transformation") =>
                 Cardinality(NewStatePairs(ov_model, old)) = Len(key_value_input_names)

C7_Witness ==
    /\ Pinned
    /\ MakeStatefulReturned
    /\ pc = "returned"
    /\ warnings = << "encoder_hidden_states" >>
    /\ ov_model.nodes[InputPort(ov_model, "encoder_hidden_states")].shape
         = << Dynamic, Dynamic, 4 >>
    /\ ov_model.nodes[InputPort(ov_model, "input_ids")].shape[1] = 2
    /\ Len(ov_model.sinks) = 2

\* C8: a patch_stateful call that returns has run the gate, the argument
\* evaluation, fuse_cache_reorder and make_stateful (its three steps) in that
\* order, with num_beams_and_batch = None; no port of the graph carries a
\* key-value name, one input is named "beam_idx", and there is one read/write
\* pair per key-value pair, each read initialised by a zero broadcast following
\* input_ids's batch.
C8_PatchStatefulResult ==
    (entry = "patch_stateful" /\ pc = "returned") =>
        LET kv == Range(model.key_value_input_names)
                    \cup Range(model.key_value_output_names)
            pairs == NewStatePairs(ov_model, ov_model_before)
        IN  /\ error = ""
            /\ trace = << "raise_if_openvino_is_too_old", "patch_stateful_arguments",
                          "fuse_cache_reorder", "make_stateful",
                          "apply_make_stateful_transformation",
                          "build_state_initializer" >>
            /\ num_beams_and_batch = None
            /\ NamesOf(ov_model, ov_model.parameters \o ov_model.results) \cap kv = {}
            /\ Cardinality({ i \in DOMAIN ov_model.parameters :
                   "beam_idx" \in ov_model.nodes[ov_model.parameters[i]].names }) = 1
            /\ Cardinality(pairs) = Len(model.key_value_input_names)
            /\ Len(ov_model.sinks) = Len(model.key_value_input_names)
            /\ \A i \in DOMAIN model.key_value_input_names :
                 \E rw \in pairs :
                     ov_model.nodes[rw[1]].variable
                       = << model.key_value_input_names[i],
                            model.key_value_output_names[i] >>
            /\ \A rw \in pairs : HasZeroInitializer(ov_model, rw[1], batch_dim)

C8_Witness ==
    /\ entry = "patch_stateful"
    /\ pc = "returned"
    /\ model.model_type = "chatglm"
    /\ Len(model.key_value_input_names) >= 2
    /\ Len(ov_model.sinks) >= 2

\* ------------------------------------------------------------- the mapping
\* The dict handed to the state conversion has one entry per position of the
\* input-name list, the i-th input name mapped to the i-th output name, and no
\* two entries with the same output name.
MappingByPosition ==
    /\ Len(input_output_map) = Len(key_value_input_names)
    /\ \A i \in DOMAIN key_value_input_names :
         /\ i \in DOMAIN key_value_output_names
         /\ key_value_input_names[i] \in DictKeys(input_output_map)
         /\ DictGet(input_output_map, key_value_input_names[i])
              = key_value_output_names[i]
    /\ \A a, b \in DOMAIN input_output_map :
         input_output_map[a][2] = input_output_map[b][2] => a = b

\* C9 as stated: for every pair of name lists make_stateful accepts, the dict
\* handed to the state conversion is one-to-one, complete and non-overlapping.
C9_Original ==
    pc = "apply_make_stateful_transformation" => MappingByPosition

\* C9 as amended: it is so for lists of equal length in which no name is repeated.
C9_MappingOfPairedLists ==
    ( /\ pc = "apply_make_stateful_transformation"
      /\ Len(key_value_input_names) = Len(key_value_output_names)
      /\ IsDistinct(key_value_input_names)
      /\ IsDistinct(key_value_output_names) ) => MappingByPosition

C9_Witness ==
    /\ pc = "apply_make_stateful_transformation"
    /\ Len(key_value_input_names) = 2
    /\ Len(key_value_output_names) = 2
    /\ IsDistinct(key_value_input_names)
    /\ IsDistinct(key_value_output_names)
    /\ Len(input_output_map) = 2

\* C10: build_state_initializer runs only with num_beams_and_batch = None and
\* right after the state conversion; when make_stateful returns, with None it
\* has run and every read of the graph has a zero-broadcast initializer, and
\* with a pinned size it has not run, no read has an initializer argument and
\* the graph has no broadcast that it did not have before.
C10_InitializerIffDynamic ==
    /\ "build_state_initializer" \in Range(trace) =>
         /\ ~Pinned
         /\ Len(trace) >= 2
         /\ trace[Len(trace) - 1] = "apply_make_stateful_transformation"
         /\ Last(trace) = "build_state_initializer"
    /\ (MakeStatefulReturned /\ ~Pinned) =>
         /\ Ran("build_state_initializer")
         /\ ReadValues(ov_model) # {}
         /\ \A read \in ReadValues(ov_model) : HasZeroInitializer(ov_model, read, batch_dim)
    /\ (MakeStatefulReturned /\ Pinned) =>
         /\ "build_state_initializer" \notin Range(trace)
         /\ \A read \in ReadValues(ov_model) : ov_model.nodes[read].args = << >>
         /\ \A i \in DOMAIN ov_model.nodes :
              ov_model.nodes[i].op = "Broadcast" => i \in DOMAIN before_make_stateful.nodes

C10_Witness ==
    /\ MakeStatefulReturned
    /\ Pinned
    /\ Cardinality(ReadValues(ov_model)) = 2
    /\ \A read \in ReadValues(ov_model) : ov_model.nodes[read].args = << >>

====
